---- MODULE Spec2Model ----
(***************************************************************************)
(* Black-Scholes option pricer and price-surface sweep of options.py.      *)
(*                                                                         *)
(* Floating-point numbers are modelled as fixed-point integers counted in  *)
(* 1/Unit, extended with IEEE-754's non-finite classes (nan, +-inf) and    *)
(* the sign of zero, since numpy arithmetic returns those instead of       *)
(* raising.  The library functions np.log, np.sqrt, np.exp and norm.cdf    *)
(* are computed to the resolution of the fixed-point grid.                 *)
(***************************************************************************)
EXTENDS Integers, Sequences, FiniteSets, TLC

\* Resolution of the fixed-point grid: 1.0 is Unit.
Unit == 10000

----------------------------------------------------------------------------
(* Fixed-point helpers *)

Abs(n) == IF n < 0 THEN -n ELSE n

\* a / b rounded to the nearest integer, halves away from zero (b # 0).
RDiv(a, b) ==
  LET x == a
      y == b
      ax == IF x < 0 THEN -x ELSE x
      ay == IF y < 0 THEN -y ELSE y
      q == ax \div ay
      m == ax % ay
      n == IF m >= ay - m THEN q + 1 ELSE q
  IN  IF (x < 0) = (y < 0) THEN n ELSE -n

\* ln 2 on the grid.
LN2 == (6931 * Unit) \div 10000

\* e^f for 0 <= f < ln 2, by its Taylor series.
RECURSIVE ExpSeries(_, _, _, _)
ExpSeries(f, term, n, acc) ==
  IF term = 0 \/ n > 12 THEN acc
  ELSE LET t == RDiv(term * f, n * Unit)
       IN  ExpSeries(f, t, n + 1, acc + t)

RECURSIVE Pow2Scale(_, _)
Pow2Scale(v, k) ==
  IF k = 0 THEN v
  ELSE IF k > 0 THEN Pow2Scale(2 * v, k - 1)
  ELSE IF v = 0 THEN 0
  ELSE Pow2Scale(RDiv(v, 2), k + 1)

\* e^x on the grid: x = k ln 2 + f, e^x = 2^k e^f.
ExpFix(x) ==
  LET e == x
      k == e \div LN2
      f == e - k * LN2
  IN  Pow2Scale(ExpSeries(f, Unit, 1, Unit), k)

\* 2 * (z + z^3/3 + z^5/5 + ...) = ln((1+z)/(1-z))
RECURSIVE AtanhSeries(_, _, _, _)
AtanhSeries(z2, pw, n, acc) ==
  IF pw = 0 \/ n > 25 THEN acc
  ELSE AtanhSeries(z2, RDiv(pw * z2, Unit), n + 2, acc + RDiv(pw, n))

\* ln x on the grid for x > 0: x is halved or doubled into [1, 2) first.
RECURSIVE LnFix(_)
LnFix(x) ==
  IF x >= 2 * Unit THEN LnFix(RDiv(x, 2)) + LN2
  ELSE IF x < Unit THEN LnFix(2 * x) - LN2
  ELSE LET z == RDiv((x - Unit) * Unit, x + Unit)
       IN  2 * AtanhSeries(RDiv(z * z, Unit), z, 1, 0)

\* floor(sqrt(n)) by bisection on lo..hi.
RECURSIVE ISqrt(_, _, _)
ISqrt(n, lo, hi) ==
  IF lo >= hi THEN lo
  ELSE LET mid == (lo + hi + 1) \div 2
       IN  IF mid * mid <= n THEN ISqrt(n, mid, hi) ELSE ISqrt(n, lo, mid - 1)

\* sqrt x on the grid for x >= 0: sqrt(x/Unit) * Unit = sqrt(x * Unit).
SqrtFix(x) ==
  LET n == x * Unit
      s == ISqrt(n, 0, 46340)
  IN  IF n - s * s > s THEN s + 1 ELSE s

\* Standard normal CDF on the grid for x >= 0 (Abramowitz-Stegun 26.2.17,
\* absolute error below 1e-7).  Beyond 4 standard deviations the tail is
\* below the resolution of the grid.
PhiPos(x) ==
  IF x >= 4 * Unit THEN Unit
  ELSE LET t   == RDiv(Unit * Unit, Unit + RDiv(2316 * x, 10000))
           m(a, b) == RDiv(a * b, Unit)
           c(n) == RDiv(n * Unit, 10000)
           p5 == m(t, c(13303))
           p4 == m(t, c(-18213) + p5)
           p3 == m(t, c(17815) + p4)
           p2 == m(t, c(-3566) + p3)
           p1 == m(t, c(3194) + p2)
           pdf == m(c(3989), ExpFix(-RDiv(x * x, 2 * Unit)))
       IN  Unit - m(pdf, p1)

\* Phi(-x) = 1 - Phi(x).
PhiFix(x) == IF x >= 0 THEN PhiPos(x) ELSE Unit - PhiPos(-x)

----------------------------------------------------------------------------
(* IEEE-754 values: finite numbers on the grid, nan, +-inf, signed zero *)

Fin(n) == LET x == n IN [cls |-> "fin", v |-> x, neg |-> x < 0]

\* A finite result whose sign, when it rounds to zero, is that of the exact
\* result.
FinS(n, neg) ==
  LET x == n IN [cls |-> "fin", v |-> x, neg |-> IF x = 0 THEN neg ELSE x < 0]

Inf(neg) == [cls |-> "inf", v |-> 0, neg |-> neg]

NaN == [cls |-> "nan", v |-> 0, neg |-> FALSE]

IsNaN(a) == a.cls = "nan"

IsInf(a) == a.cls = "inf"

IsZero(a) == a.cls = "fin" /\ a.v = 0

FNeg(a) ==
  LET x == a
  IN  IF IsNaN(x) THEN NaN
      ELSE IF IsInf(x) THEN Inf(~x.neg)
      ELSE FinS(-x.v, ~x.neg)

FAdd(a, b) ==
  LET x == a
      y == b
  IN  IF IsNaN(x) \/ IsNaN(y) THEN NaN
      ELSE IF IsInf(x) /\ IsInf(y) THEN (IF x.neg = y.neg THEN x ELSE NaN)
      ELSE IF IsInf(x) THEN x
      ELSE IF IsInf(y) THEN y
      ELSE FinS(x.v + y.v, x.v = 0 /\ y.v = 0 /\ x.neg /\ y.neg)

FSub(a, b) == FAdd(a, FNeg(b))

FMul(a, b) ==
  LET x == a
      y == b
  IN  IF IsNaN(x) \/ IsNaN(y) THEN NaN
      ELSE IF IsInf(x) \/ IsInf(y)
           THEN (IF IsZero(x) \/ IsZero(y) THEN NaN ELSE Inf(x.neg # y.neg))
      ELSE FinS(RDiv(x.v * y.v, Unit), x.neg # y.neg)

\* numpy's float64 division: a zero divisor gives nan or +-inf (with a
\* RuntimeWarning), never an exception.
FDiv(a, b) ==
  LET x == a
      y == b
  IN  IF IsNaN(x) \/ IsNaN(y) THEN NaN
      ELSE IF IsInf(x) THEN (IF IsInf(y) THEN NaN ELSE Inf(x.neg # y.neg))
      ELSE IF IsInf(y) THEN FinS(0, x.neg # y.neg)
      ELSE IF y.v = 0 THEN (IF x.v = 0 THEN NaN ELSE Inf(x.neg # y.neg))
      ELSE FinS(RDiv(x.v * Unit, y.v), x.neg # y.neg)

\* np.log: nan below zero, -inf at zero.
np_log(a) ==
  LET x == a
  IN  IF IsNaN(x) THEN NaN
      ELSE IF IsZero(x) THEN Inf(TRUE)
      ELSE IF x.neg THEN NaN
      ELSE IF IsInf(x) THEN Inf(FALSE)
      ELSE Fin(LnFix(x.v))

\* np.sqrt: nan below zero.
np_sqrt(a) ==
  LET x == a
  IN  IF IsNaN(x) THEN NaN
      ELSE IF IsZero(x) THEN x
      ELSE IF x.neg THEN NaN
      ELSE IF IsInf(x) THEN Inf(FALSE)
      ELSE Fin(SqrtFix(x.v))

np_exp(a) ==
  LET x == a
  IN  IF IsNaN(x) THEN NaN
      ELSE IF IsInf(x) THEN (IF x.neg THEN Fin(0) ELSE Inf(FALSE))
      ELSE Fin(ExpFix(x.v))

\* scipy.stats.norm.cdf
norm_cdf(a) ==
  LET x == a
  IN  IF IsNaN(x) THEN NaN
      ELSE IF IsInf(x) THEN (IF x.neg THEN Fin(0) ELSE Fin(Unit))
      ELSE Fin(PhiFix(x.v))

----------------------------------------------------------------------------
(* black_scholes *)

\* What a call ends with: a returned value or a raised exception.
Return(x) == [kind |-> "return", val |-> x]

Raise(e) == [kind |-> "raise", val |-> e]

Half == Fin(Unit \div 2)

\* Line 37.
bs_d1(S, K, T, r, sigma) ==
  FDiv(FAdd(np_log(FDiv(S, K)),
            FMul(FAdd(r, FMul(Half, FMul(sigma, sigma))), T)),
       FMul(sigma, np_sqrt(T)))

\* Line 38.
bs_d2(d1, T, sigma) == FSub(d1, FMul(sigma, np_sqrt(T)))

\* Line 41.
call_formula(S, K, T, r, d1, d2) ==
  FSub(FMul(S, norm_cdf(d1)),
       FMul(FMul(K, np_exp(FMul(FNeg(r), T))), norm_cdf(d2)))

\* Line 43.
put_formula(S, K, T, r, d1, d2) ==
  FSub(FMul(FMul(K, np_exp(FMul(FNeg(r), T))), norm_cdf(FNeg(d2))),
       FMul(S, norm_cdf(FNeg(d1))))

\* Mutant of black_scholes: the final else falls through to the put formula.
black_scholes_else_put(S, K, T, r, sigma, option_type, numpy) ==
  IF ~numpy /\ IsZero(K) THEN Raise("ZeroDivisionError")
  ELSE LET d1 == bs_d1(S, K, T, r, sigma)
           d2 == bs_d2(d1, T, sigma)
       IN  IF option_type = "call"
           THEN Return(call_formula(S, K, T, r, d1, d2))
           ELSE Return(put_formula(S, K, T, r, d1, d2))

\* Lines 35-47.  S / K at line 37 is Python's float division when both
\* operands are Python floats, and raises ZeroDivisionError on a zero
\* divisor; when either is a numpy float64 (numpy is TRUE: the spot of
\* generate_heatmap's sweep) it is numpy's division, which does not raise.
black_scholes(S, K, T, r, sigma, option_type, numpy) ==
  IF ~numpy /\ IsZero(K) THEN Raise("ZeroDivisionError")
  ELSE LET d1 == bs_d1(S, K, T, r, sigma)
           d2 == bs_d2(d1, T, sigma)
       IN  IF option_type = "call"
           THEN Return(call_formula(S, K, T, r, d1, d2))
           ELSE IF option_type = "put"
           THEN Return(put_formula(S, K, T, r, d1, d2))
           ELSE Raise("ValueError")

----------------------------------------------------------------------------
(* Inputs *)

\* Longest axis an outside caller passes to generate_heatmap.
MaxLen == 2

\* A Python float given in hundredths.
F(n) == Fin((n * Unit) \div 100)

OptionTypes == {"call", "put", "straddle"}

\* Arguments of direct calls of black_scholes.
PriceS == {F(-100), F(0), F(100), F(200)}
PriceK == {F(0), F(100), F(200)}
PriceT == {F(0), F(100)}
PriceR == {F(-5), F(0), F(5)}
PriceSigma == {F(-40), F(0), F(40)}

\* Arguments of direct calls of generate_heatmap: the base spot and
\* volatility, the market (strike, maturity, rate) and the axes' values.
BaseSpotVol ==
  {[S |-> F(100), sigma |-> F(20)], [S |-> F(200), sigma |-> F(40)]}
BaseMarket ==
  {[K |-> F(100), T |-> F(100), r |-> F(5)],
   [K |-> F(200), T |-> F(400), r |-> F(0)]}
SpotVals == {F(-100), F(100), F(200)}
VolVals == {F(40), F(80)}

Axes(vals) == UNION {[1..n -> vals] : n \in 1..MaxLen}

\* Values the sidebar widgets of lines 104-115 accept.  number_input with
\* min_value refuses smaller values; the spot bounds have no min_value; the
\* sliders range over [0.01, 1.0].
WidgetS == {F(100), F(200)}
WidgetK == {F(100)}
WidgetT == {F(1), F(100)}
WidgetSigma == {F(2), F(20)}
WidgetR == {F(5)}
WidgetSpot == {F(-100), F(100), F(200)}
WidgetVol == {F(1), F(100)}

WidgetStates ==
  [S : WidgetS, K : WidgetK, T : WidgetT, sigma : WidgetSigma, r : WidgetR,
   spot_min : WidgetSpot, spot_max : WidgetSpot,
   vol_min : WidgetVol, vol_max : WidgetVol]

\* The widgets' default values (lines 104-115), prices in units of 100: the
\* formula is homogeneous of degree one in (S, K).
DefaultWidgets ==
  [S |-> F(100), K |-> F(100), T |-> F(100), sigma |-> F(20), r |-> F(5),
   spot_min |-> F(80), spot_max |-> F(120),
   vol_min |-> F(10), vol_max |-> F(30)]

\* Number of samples of each axis the script builds (lines 162-163).
num == 10

----------------------------------------------------------------------------
(* State *)

VARIABLES
  widgets,     \* the script's module-level S, K, T, sigma, r and heatmap bounds
  spot_range,  \* module-level spot_range (line 162)
  vol_range,   \* module-level vol_range (line 163)
  script,      \* position of the script run; "off" when the functions are
               \* called from outside the script
  shown,       \* figures handed to st.pyplot in this run (lines 168, 171)
  pc,          \* position inside generate_heatmap: "idle", "loop", "render"
  args,        \* parameters of the generate_heatmap call in progress
  prices,      \* generate_heatmap's local grid
  i,           \* row index of the loop of line 53 (1-based)
  j,           \* column index of the loop of line 54 (1-based)
  bs_call,     \* arguments of the most recent black_scholes call
  last         \* what the most recent call delivered to its caller

vars == <<widgets, spot_range, vol_range, script, shown, pc, args, prices, i, j,
          bs_call, last>>

None == [fn |-> "none"]

BsArgs(S, K, T, r, sigma, option_type) ==
  [fn |-> "black_scholes", S |-> S, K |-> K, T |-> T, r |-> r, sigma |-> sigma,
   option_type |-> option_type]

HeatmapArgs(S, K, T, r, sigma, spots, vols, option_type) ==
  [fn |-> "generate_heatmap", S |-> S, K |-> K, T |-> T, r |-> r,
   sigma |-> sigma, spot_range |-> spots, vol_range |-> vols,
   option_type |-> option_type]

\* Mutant of np_zeros: the dimensions are exchanged.
np_zeros_transposed(rows, cols) ==
  [a \in 1..cols |-> [b \in 1..rows |-> Fin(0)]]

\* np.zeros((rows, cols)), line 52.
np_zeros(rows, cols) == [a \in 1..rows |-> [b \in 1..cols |-> Fin(0)]]

\* Mutant of np_linspace: the bounds are put in ascending order first.
np_linspace_sorted(start, stop, n) ==
  LET lo   == IF start.v <= stop.v THEN start ELSE stop
      hi   == IF start.v <= stop.v THEN stop ELSE start
      step == RDiv(hi.v - lo.v, n - 1)
  IN  [k \in 1..n |-> IF k = n THEN hi ELSE Fin(lo.v + (k - 1) * step)]

\* np.linspace(start, stop, n) on finite values: start + k * step with
\* step = (stop - start) / (n - 1), and the last sample set to stop.
np_linspace(start, stop, n) ==
  LET step == RDiv(stop.v - start.v, n - 1)
  IN  [k \in 1..n |-> IF k = n THEN stop ELSE Fin(start.v + (k - 1) * step)]

----------------------------------------------------------------------------
(* generate_heatmap, lines 50-88 *)

\* The figure returned at line 88: the annotated grid and its colour-bar
\* label.
Figure(data, option_type) == [data |-> data, option_type |-> option_type]

Completed(a, out) == [fn |-> a.fn, args |-> a, out |-> out]

\* Lines 50-52: bind the parameters and allocate a fresh grid of zeros.
generate_heatmap(a) ==
  /\ pc = "idle"
  /\ args' = a
  /\ prices' = np_zeros(Len(a.vol_range), Len(a.spot_range))
  /\ i' = 1
  /\ j' = 1
  /\ pc' = "loop"
  /\ last' = None
  /\ bs_call' = None

\* The frame's locals are gone once the call has ended.
NoFrame ==
  /\ args' = None
  /\ prices' = <<>>
  /\ i' = 1
  /\ j' = 1

\* Mutant of cell_call: the strike is read from the module-level K.
cell_call_global_K(a, row, col) ==
  BsArgs(a.spot_range[col], widgets.K, a.T, a.r, a.vol_range[row],
         a.option_type)

\* Mutant of cell_call: the base volatility is passed instead of the row's.
cell_call_base_sigma(a, row, col) ==
  BsArgs(a.spot_range[col], a.K, a.T, a.r, a.sigma, a.option_type)

\* Line 55: the arguments of the cell's black_scholes call.
cell_call(a, row, col) ==
  BsArgs(a.spot_range[col], a.K, a.T, a.r, a.vol_range[row], a.option_type)

\* Line 55: the cell's black_scholes call; the spot is a numpy float64.
cell_price(a, row, col) ==
  LET c == cell_call(a, row, col)
  IN  black_scholes(c.S, c.K, c.T, c.r, c.sigma, c.option_type, TRUE)

\* Lines 53-55: one cell of the sweep.  An exception of black_scholes leaves
\* generate_heatmap; the grid is dropped with the frame.
LoopBody ==
  /\ pc = "loop"
  /\ LET out == cell_price(args, i, j)
     IN  /\ bs_call' = cell_call(args, i, j)
         /\ IF out.kind = "raise"
            THEN /\ pc' = "idle"
                 /\ last' = Completed(args, out)
                 /\ script' = IF script = "off" THEN "off" ELSE "error"
                 /\ NoFrame
            ELSE /\ prices' = [prices EXCEPT ![i][j] = out.val]
                 /\ UNCHANGED args
                 /\ IF j < Len(args.spot_range)
                    THEN /\ j' = j + 1
                         /\ UNCHANGED <<i, pc>>
                    ELSE IF i < Len(args.vol_range)
                    THEN /\ i' = i + 1
                         /\ j' = 1
                         /\ UNCHANGED pc
                    ELSE /\ pc' = "render"
                         /\ UNCHANGED <<i, j>>
                 /\ UNCHANGED <<last, script>>
  /\ UNCHANGED <<widgets, spot_range, vol_range, shown>>

\* Lines 57-88: draw the grid and return the figure.  In the script the
\* caller hands it to st.pyplot (lines 168, 171).
Render ==
  /\ pc = "render"
  /\ pc' = "idle"
  /\ last' = Completed(args, Return(Figure(prices, args.option_type)))
  /\ IF script = "off"
     THEN UNCHANGED <<script, shown>>
     ELSE /\ shown' = Append(shown, Figure(prices, args.option_type))
          /\ script' = IF script = "167" THEN "170" ELSE "done"
  /\ NoFrame
  /\ UNCHANGED <<widgets, spot_range, vol_range, bs_call>>

----------------------------------------------------------------------------
(* Calls from outside the script *)

\* price(S, K, T, r, sigma, optionType): a direct call with Python floats.
ApiPrice ==
  /\ script = "off"
  /\ pc = "idle"
  /\ last = None
  /\ \E S \in PriceS, K \in PriceK, T \in PriceT, r \in PriceR,
        sigma \in PriceSigma, option_type \in OptionTypes :
       /\ bs_call' = BsArgs(S, K, T, r, sigma, option_type)
       /\ last' = Completed(BsArgs(S, K, T, r, sigma, option_type),
                            black_scholes(S, K, T, r, sigma, option_type,
                                          FALSE))
  /\ UNCHANGED <<widgets, spot_range, vol_range, script, shown, pc, args,
                 prices, i, j>>

\* generateSurface(S, K, T, r, sigma, spotAxis, volAxis, optionType).
ApiHeatmap ==
  /\ script = "off"
  /\ pc = "idle"
  /\ last = None
  /\ \E b \in BaseSpotVol, m \in BaseMarket, spots \in Axes(SpotVals),
        vols \in Axes(VolVals), option_type \in OptionTypes :
       generate_heatmap(HeatmapArgs(b.S, m.K, m.T, m.r, b.sigma, spots, vols,
                                    option_type))
  /\ UNCHANGED <<widgets, spot_range, vol_range, script, shown>>

\* The outside caller takes what the call delivered and goes on.
Resume ==
  /\ script = "off"
  /\ pc = "idle"
  /\ last # None
  /\ last' = None
  /\ bs_call' = None
  /\ UNCHANGED <<widgets, spot_range, vol_range, script, shown, pc, args,
                 prices, i, j>>

----------------------------------------------------------------------------
(* The Streamlit script, lines 102-171 *)

\* Lines 104-115: a widget change stops the run and starts the script again
\* with the new values; changes are taken as a run starts and after it ends.
Rerun ==
  /\ script \in {"127", "done", "error"}
  /\ pc = "idle"
  /\ widgets' \in WidgetStates
  /\ script' = "127"
  /\ shown' = <<>>
  /\ spot_range' = <<>>
  /\ vol_range' = <<>>
  /\ last' = None
  /\ bs_call' = None
  /\ UNCHANGED <<pc, args, prices, i, j>>

\* Lines 127 and 128: the two prices shown above the heatmaps.
ScriptPrice(line, option_type, next) ==
  /\ script = line
  /\ LET a   == BsArgs(widgets.S, widgets.K, widgets.T, widgets.r,
                       widgets.sigma, option_type)
         out == black_scholes(widgets.S, widgets.K, widgets.T, widgets.r,
                              widgets.sigma, option_type, FALSE)
     IN  /\ bs_call' = a
         /\ last' = Completed(a, out)
         /\ script' = IF out.kind = "raise" THEN "error" ELSE next
  /\ UNCHANGED <<widgets, spot_range, vol_range, shown, pc, args, prices, i, j>>

Line127 == ScriptPrice("127", "call", "128")

Line128 == ScriptPrice("128", "put", "162")

\* Lines 162-163.
Line162 ==
  /\ script = "162"
  /\ spot_range' = np_linspace(widgets.spot_min, widgets.spot_max, num)
  /\ vol_range' = np_linspace(widgets.vol_min, widgets.vol_max, num)
  /\ script' = "167"
  /\ UNCHANGED <<widgets, shown, pc, args, prices, i, j, bs_call, last>>

\* Lines 167 and 170: the calls of generate_heatmap.
ScriptHeatmap(line, option_type) ==
  /\ script = line
  /\ generate_heatmap(HeatmapArgs(widgets.S, widgets.K, widgets.T, widgets.r,
                                  widgets.sigma, spot_range, vol_range,
                                  option_type))
  /\ UNCHANGED <<widgets, spot_range, vol_range, script, shown>>

Line167 == ScriptHeatmap("167", "call")

Line170 == ScriptHeatmap("170", "put")

----------------------------------------------------------------------------
(* Specifications *)

InitCommon ==
  /\ widgets = DefaultWidgets
  /\ spot_range = <<>>
  /\ vol_range = <<>>
  /\ shown = <<>>
  /\ pc = "idle"
  /\ args = None
  /\ prices = <<>>
  /\ i = 1
  /\ j = 1
  /\ bs_call = None
  /\ last = None

\* The functions called from outside the script.
Init == InitCommon /\ script = "off"

Next == ApiPrice \/ ApiHeatmap \/ LoopBody \/ Render \/ Resume

Spec == Init /\ [][Next]_vars

\* The script run by Streamlit, rerun on every widget change.
InitApp == InitCommon /\ script = "127"

NextApp ==
  \/ Rerun \/ Line127 \/ Line128 \/ Line162 \/ Line167 \/ Line170
  \/ LoopBody \/ Render

SpecApp == InitApp /\ [][NextApp]_vars

----------------------------------------------------------------------------
(* Properties *)

Positive(x) == x.cls = "fin" /\ x.v > 0

NonNegative(x) == x.cls = "fin" /\ x.v >= 0

\* A direct call of black_scholes has ended.
PriceEnded == last # None /\ last.fn = "black_scholes"

\* A call of generate_heatmap has ended.
SweepEnded == last # None /\ last.fn = "generate_heatmap"

SweepReturned == SweepEnded /\ last.out.kind = "return"

\* C1: a returned grid has one row per vol_range entry and one column per
\* spot_range entry, and cell [a][b] is the price at spot_range[b] and
\* vol_range[a] with the call's K, T, r and option type.
C1_GridShapeAndCells ==
  SweepReturned =>
    LET g == last.out.val.data
        p == last.args
    IN  /\ Len(g) = Len(p.vol_range)
        /\ \A a \in 1..Len(p.vol_range) :
             /\ Len(g[a]) = Len(p.spot_range)
             /\ \A b \in 1..Len(p.spot_range) :
                  g[a][b] = black_scholes(p.spot_range[b], p.K, p.T, p.r,
                                          p.vol_range[a], p.option_type,
                                          TRUE).val

\* A 2 x 2 grid over valid axes was returned whose off-diagonal cells differ
\* and none of whose cells is zero.
C1_Witness ==
  /\ SweepReturned
  /\ Len(last.args.vol_range) = 2
  /\ Len(last.args.spot_range) = 2
  /\ LET g == last.out.val.data
     IN  /\ g[1][2] # g[2][1]
         /\ \A a \in 1..2 : \A b \in 1..2 : Positive(g[a][b])

\* C2: a direct call whose S, K, T or sigma is not positive, or whose r is
\* negative, ends with an exception.
C2_InvalidInputsRaise ==
  (/\ PriceEnded
   /\ \/ ~Positive(last.args.S)
      \/ ~Positive(last.args.K)
      \/ ~Positive(last.args.T)
      \/ ~Positive(last.args.sigma)
      \/ ~NonNegative(last.args.r))
  => last.out.kind = "raise"

ValidCell(p, a, b) ==
  /\ Positive(p.spot_range[b])
  /\ Positive(p.vol_range[a])
  /\ Positive(p.K)
  /\ Positive(p.T)
  /\ NonNegative(p.r)

\* C3: generate_heatmap returns a grid only if every cell's parameters
\* satisfy the pricer's preconditions; otherwise it ends with an exception.
C3_NoPartiallyValidGrid ==
  SweepReturned =>
    \A a \in 1..Len(last.args.vol_range) :
      \A b \in 1..Len(last.args.spot_range) : ValidCell(last.args, a, b)

\* C4: a direct call returns the value of the call formula only for "call"
\* and of the put formula only for "put"; with valid numbers those two
\* types do return; every other option type ends with an exception.
C4_TypeSelectsFormula ==
  PriceEnded =>
    LET p  == last.args
        d1 == bs_d1(p.S, p.K, p.T, p.r, p.sigma)
        d2 == bs_d2(d1, p.T, p.sigma)
    IN  /\ last.out.kind = "return" =>
             \/ /\ p.option_type = "call"
                /\ last.out.val = call_formula(p.S, p.K, p.T, p.r, d1, d2)
             \/ /\ p.option_type = "put"
                /\ last.out.val = put_formula(p.S, p.K, p.T, p.r, d1, d2)
        /\ p.option_type \notin {"call", "put"} => last.out.kind = "raise"
        /\ (p.option_type \in {"call", "put"} /\ ~IsZero(p.K))
             => last.out.kind = "return"

\* A direct call with valid numbers and an option type that is neither
\* "call" nor "put" has raised ValueError.
C4_Witness ==
  /\ PriceEnded
  /\ last.args.option_type = "straddle"
  /\ Positive(last.args.S) /\ Positive(last.args.K) /\ Positive(last.args.T)
  /\ Positive(last.args.sigma)
  /\ last.out = Raise("ValueError")

\* C6: a price for valid inputs is non-negative, and every cell of a
\* returned grid is a non-negative number.
C6_NonNegative ==
  /\ (/\ PriceEnded
      /\ last.out.kind = "return"
      /\ Positive(last.args.S) /\ Positive(last.args.K)
      /\ Positive(last.args.T) /\ Positive(last.args.sigma)
      /\ NonNegative(last.args.r))
     => NonNegative(last.out.val)
  /\ SweepReturned =>
       \A a \in 1..Len(last.args.vol_range) :
         \A b \in 1..Len(last.args.spot_range) :
           NonNegative(last.out.val.data[a][b])

\* What a sweep delivers as a function of strike, maturity, rate, axes and
\* option type alone.
ExpectedSweep(K, T, r, spots, vols, option_type) ==
  IF option_type \notin {"call", "put"} THEN Raise("ValueError")
  ELSE Return(Figure(
         [a \in 1..Len(vols) |->
            [b \in 1..Len(spots) |->
               black_scholes(spots[b], K, T, r, vols[a], option_type,
                             TRUE).val]],
         option_type))

ExpectedOutcome(p) ==
  IF p.fn = "generate_heatmap"
  THEN ExpectedSweep(p.K, p.T, p.r, p.spot_range, p.vol_range, p.option_type)
  ELSE black_scholes(p.S, p.K, p.T, p.r, p.sigma, p.option_type, FALSE)

Range(f) == {f[k] : k \in DOMAIN f}

\* C10: every black_scholes call of a sweep takes K, T and r from the
\* sweep's parameters and its spot and volatility from the axes, and the
\* returned grid is a function of K, T, r, the axes and the option type
\* alone: it is the same whatever base S and sigma were passed.
C10_BaseSpotAndVolUnused ==
  /\ (pc \in {"loop", "render"} /\ bs_call # None) =>
       /\ bs_call.K = args.K
       /\ bs_call.T = args.T
       /\ bs_call.r = args.r
       /\ bs_call.S \in Range(args.spot_range)
       /\ bs_call.sigma \in Range(args.vol_range)
  /\ SweepReturned =>
       last.out = ExpectedSweep(last.args.K, last.args.T, last.args.r,
                                last.args.spot_range, last.args.vol_range,
                                last.args.option_type)

\* A sweep returned whose base S and sigma occur on neither axis.
C10_Witness ==
  /\ SweepReturned
  /\ last.args.S \notin Range(last.args.spot_range)
  /\ last.args.sigma \notin Range(last.args.vol_range)
  /\ Len(last.args.vol_range) = 2
  /\ Len(last.args.spot_range) = 2

----------------------------------------------------------------------------
(* Properties of the script *)

SpotInverted == widgets.spot_min.v >= widgets.spot_max.v

VolInverted == widgets.vol_min.v >= widgets.vol_max.v

\* An axis of num samples that starts at lo, ends at hi and descends
\* strictly when lo > hi and is constant when lo = hi.
ReversedOrConstant(axis, lo, hi) ==
  /\ Len(axis) = num
  /\ axis[1] = lo
  /\ axis[num] = hi
  /\ \A k \in 1..(num - 1) :
       IF lo.v > hi.v THEN axis[k + 1].v < axis[k].v ELSE axis[k + 1] = axis[k]

\* C8: with inverted or equal bounds the run never ends in an error; the
\* inverted axis is built descending (or constant), and the run hands a
\* num x num call figure and a num x num put figure to st.pyplot.
C8_InvertedBoundsStillRender ==
  (SpotInverted \/ VolInverted) =>
    /\ script # "error"
    /\ script \in {"167", "170", "done"} =>
         /\ SpotInverted =>
              ReversedOrConstant(spot_range, widgets.spot_min, widgets.spot_max)
         /\ VolInverted =>
              ReversedOrConstant(vol_range, widgets.vol_min, widgets.vol_max)
    /\ script = "done" =>
         /\ Len(shown) = 2
         /\ shown[1].option_type = "call"
         /\ shown[2].option_type = "put"
         /\ \A f \in 1..2 :
              /\ Len(shown[f].data) = num
              /\ \A a \in 1..num : Len(shown[f].data[a]) = num

\* A run with vol_min > vol_max and spot_min = spot_max has shown both
\* figures.
C8_Witness ==
  /\ script = "done"
  /\ widgets.vol_min.v > widgets.vol_max.v
  /\ widgets.spot_min = widgets.spot_max
  /\ Len(shown) = 2

\* C9: every black_scholes call of a script run receives a positive spot,
\* strike, maturity and volatility.
C9_ScriptCallsAreValid ==
  (script # "off" /\ bs_call # None) =>
    /\ Positive(bs_call.S)
    /\ Positive(bs_call.K)
    /\ Positive(bs_call.T)
    /\ Positive(bs_call.sigma)

====
